---- MODULE Spec2Model ----
(***************************************************************************)
(* Model of the COCO data-ingestion stage of visionllm_interaction:        *)
(* DataIngestion (components/data_ingestion.py) with its configuration     *)
(* (entity/config_entity.py, constants/training_pipeline/__init__.py) and  *)
(* its artifact (entity/artifact_entity.py).                               *)
(*                                                                         *)
(* Paths are sequences of path components ("data/raw" is <<"data","raw">>).*)
(* The downloaded payload is a directory tree: the set of the paths of its *)
(* directories, relative to the payload's base directory.                  *)
(***************************************************************************)
EXTENDS Naturals, Sequences, FiniteSets, TLC

\* ------------------------------------------------------------------
\* Bounds of the model
\* ------------------------------------------------------------------
\* Files in the payload's train2017/ and val2017/ directories.
FilesPerDir == 1
\* Configurations constructed (runs started) in one behaviour.
MaxRuns == 2
\* Last tick of the wall clock.
MaxClock == 2

\* ------------------------------------------------------------------
\* constants/training_pipeline/__init__.py
\* ------------------------------------------------------------------
ARTIFACTS_DIR == "artifacts"
DATA_INGESTION_DIR_NAME == "data_ingestion"
DATA_INGESTION_MODE == "register"
DATASET_NAME == "awsaf49/coco-2017-dataset"
RAW_DATA_DIR == <<"data", "raw">>
RAW_COCO_TRAIN_IMAGE_DIR == <<"data", "raw", "train2017">>
RAW_COCO_VAL_IMAGE_DIR == <<"data", "raw", "val2017">>
RAW_COCO_ANNOTATION_DIR == <<"data", "raw", "annotations">>
RAW_COCO_TRAIN_ANN_FILE == <<"data", "raw", "annotations", "instances_train2017.json">>
RAW_COCO_VAL_ANN_FILE == <<"data", "raw", "annotations", "instances_val2017.json">>
DATA_INGESTION_MANIFEST_FILE == "data_manifest.yaml"

\* "No path": the value of a path variable that holds no path yet.
NoPath == <<"?">>
\* An error is [kind, path, name]: the kind of the CustomException (read from its
\* message), the path and the directory name the message names.
Err(kind, path, name) == [kind |-> kind, path |-> path, name |-> name]
NoErr == Err("none", <<>>, "")

\* ------------------------------------------------------------------
\* Path helpers (pathlib / os.path)
\* ------------------------------------------------------------------
\* Path(p).name
Basename(p) == p[Len(p)]
\* os.path.dirname(p)
Dirname(p) == SubSeq(p, 1, Len(p) - 1)
\* os.path.join(p, name), p / name
Join(p, name) == Append(p, name)
IsPrefix(p, q) == Len(p) <= Len(q) /\ SubSeq(q, 1, Len(p)) = p

\* ------------------------------------------------------------------
\* entity/config_entity.py
\* ------------------------------------------------------------------
\* Clock ticks per second: datetime.now() is finer than the one-second
\* resolution of the "%m_%d_%Y_%H_%M_%S" format.
TicksPerSec == 2
\* The "%m_%d_%Y_%H_%M_%S" strings of consecutive seconds.
Stamps == <<"11_02_2026_10_00_00", "11_02_2026_10_00_01", "11_02_2026_10_00_02",
            "11_02_2026_10_00_03", "11_02_2026_10_00_04", "11_02_2026_10_00_05">>

\* timestamp.strftime("%m_%d_%Y_%H_%M_%S")
Strftime(t) == Stamps[(t \div TicksPerSec) + 1]

\* TrainingPipelineConfig.__init__(timestamp): self.artifact_dir
ArtifactDir(timestamp) == <<ARTIFACTS_DIR, Strftime(timestamp)>>

\* DataIngestionConfig.__init__(training_pipeline_config)
DataIngestionConfig(artifact_dir) ==
    [dataset_name |-> DATASET_NAME,
     ingestion_mode |-> DATA_INGESTION_MODE,
     data_ingestion_dir |-> Join(artifact_dir, DATA_INGESTION_DIR_NAME),
     raw_data_dir |-> RAW_DATA_DIR,
     raw_train_image_dir |-> RAW_COCO_TRAIN_IMAGE_DIR,
     raw_val_image_dir |-> RAW_COCO_VAL_IMAGE_DIR,
     raw_annotation_dir |-> RAW_COCO_ANNOTATION_DIR,
     raw_train_annotation_file |-> RAW_COCO_TRAIN_ANN_FILE,
     raw_val_annotation_file |-> RAW_COCO_VAL_ANN_FILE,
     manifest_file_path |->
         Join(Join(artifact_dir, DATA_INGESTION_DIR_NAME), DATA_INGESTION_MANIFEST_FILE)]

\* ------------------------------------------------------------------
\* The payload tree (the directory kagglehub returns, or the extracted archive)
\* ------------------------------------------------------------------
\* Path(self.config.raw_train_image_dir).name
TrainDirname(cfg) == Basename(cfg.raw_train_image_dir)
\* Path(self.config.raw_val_image_dir).name
ValDirname(cfg) == Basename(cfg.raw_val_image_dir)
\* the literal "annotations" of _find_coco_root and _prepare_raw_data_dir
AnnDirname == "annotations"

\* (base / name).exists(), for a path relative to the tree's base directory: the
\* base <<>> exists, every other path exists when the tree holds it.
TreeExists(tree, p) == p = <<>> \/ p \in tree

\* The entries of directory d in directory-listing order: `order` is the order in
\* which the file system lists names.
Listing(tree, order, d) ==
    LET names == SelectSeq(order, LAMBDA n : Join(d, n) \in tree)
    IN  [i \in 1..Len(names) |-> Join(d, names[i])]

RECURSIVE Flatten(_)
Flatten(ss) == IF ss = <<>> THEN <<>> ELSE Head(ss) \o Flatten(Tail(ss))

\* [p for p in base.glob("*") if p.is_dir()]: every entry of the tree is a
\* directory, so is_dir() keeps them all.
GlobChildren(tree, order) == Listing(tree, order, <<>>)
\* [p for p in base.glob("*/*") if p.is_dir()]
GlobGrandchildren(tree, order) ==
    LET cs == Listing(tree, order, <<>>)
    IN  Flatten([i \in 1..Len(cs) |-> Listing(tree, order, cs[i])])

\* (c / train_dirname).exists() and (c / "annotations").exists()
HasCocoLayout(cfg, tree, c) ==
    /\ TreeExists(tree, Join(c, TrainDirname(cfg)))
    /\ TreeExists(tree, Join(c, AnnDirname))

\* candidates = [base] + glob("*") + glob("*/*")
Candidates(tree, order) ==
    <<(<<>>)>> \o GlobChildren(tree, order) \o GlobGrandchildren(tree, order)

\* "Could not locate COCO root under: {base_dir}. Expected folders like
\* '{train_dirname}/' and 'annotations/'."
RootNotFound(cfg, base) == Err("RootNotFound", base, TrainDirname(cfg))

\* The first of cands with the COCO layout, as str(c), or the error.
FirstWithLayout(cfg, tree, cands, base) ==
    LET hits == {i \in 1..Len(cands) : HasCocoLayout(cfg, tree, cands[i])}
    IN  IF hits = {}
        THEN [root |-> NoPath, err |-> RootNotFound(cfg, base)]
        ELSE [root |-> base \o cands[CHOOSE i \in hits : \A j \in hits : i <= j],
              err |-> NoErr]

\* Faulty variant: the probe descends one level further (base.glob("*/*/*")).
FindCocoRootThreeLevels(cfg, tree, order, base) ==
    LET gs == GlobGrandchildren(tree, order)
        ggs == Flatten([i \in 1..Len(gs) |-> Listing(tree, order, gs[i])])
    IN  FirstWithLayout(cfg, tree, Candidates(tree, order) \o ggs, base)

\* Faulty variant: the second-level candidates are probed before the first-level ones.
FindCocoRootDeepFirst(cfg, tree, order, base) ==
    FirstWithLayout(cfg, tree,
        <<(<<>>)>> \o GlobGrandchildren(tree, order) \o GlobChildren(tree, order), base)

\* DataIngestion._find_coco_root(base_dir), on the tree at base_dir.
FindCocoRoot(cfg, tree, order, base) ==
    IF HasCocoLayout(cfg, tree, <<>>)
    THEN [root |-> base, err |-> NoErr]
    ELSE FirstWithLayout(cfg, tree, Candidates(tree, order), base)

\* ------------------------------------------------------------------
\* The raw-data directory (config.raw_data_dir) on disk
\* ------------------------------------------------------------------
\* raw = [root, tmp, dirs]: whether data/raw exists; the state of
\* data/raw/_tmp_extract ("absent", "partial": created and not fully extracted,
\* "full": holding the archive's tree); and, for each destination directory
\* name, whether it exists and the files it holds.
ImageNames == <<"000000000009.jpg", "000000000025.jpg", "000000000030.jpg",
                "000000000034.jpg">>
\* The files of the payload's train2017/ and val2017/.
Images == {ImageNames[i] : i \in 1..FilesPerDir}
\* The annotation files the configuration names.
AnnFileNames == {Basename(RAW_COCO_TRAIN_ANN_FILE), Basename(RAW_COCO_VAL_ANN_FILE)}
\* The names of the three destination directories.
DstNames == {Basename(RAW_COCO_TRAIN_IMAGE_DIR), Basename(RAW_COCO_VAL_IMAGE_DIR),
             Basename(RAW_COCO_ANNOTATION_DIR)}

NoDir == [present |-> FALSE, files |-> {}]
Dir(files) == [present |-> TRUE, files |-> files]

\* The files of the payload directory of that name: annFiles are the files of the
\* payload's annotations/.
SrcFiles(annFiles, name) == IF name = AnnDirname THEN annFiles ELSE Images

\* os.path.exists(p) for a path at or under data/raw.
RawExists(raw, p) ==
    /\ IsPrefix(RAW_DATA_DIR, p)
    /\ raw.root
    /\ Len(p) > Len(RAW_DATA_DIR) =>
          /\ p[Len(RAW_DATA_DIR) + 1] \in DOMAIN raw.dirs
          /\ raw.dirs[p[Len(RAW_DATA_DIR) + 1]].present
    /\ Len(p) > Len(RAW_DATA_DIR) + 1 =>
          /\ Len(p) = Len(RAW_DATA_DIR) + 2
          /\ p[Len(p)] \in raw.dirs[p[Len(RAW_DATA_DIR) + 1]].files

\* data/raw with directory dst (a child of data/raw) created holding `files`.
WithDir(raw, dst, d) == [raw EXCEPT !.root = TRUE, !.dirs[Basename(dst)] = d]

\* shutil.copytree(src, dst) of a directory holding `files`, dst not existing: the
\* whole tree is copied, or the copy raises and leaves dst absent or holding a
\* part of the files.
Copytree(raw, files, dst) ==
    {[raw |-> WithDir(raw, dst, Dir(files)), copied |-> TRUE, failed |-> FALSE]}
    \cup {[raw |-> raw, copied |-> FALSE, failed |-> TRUE]}
    \cup {[raw |-> WithDir(raw, dst, Dir(part)), copied |-> FALSE, failed |-> TRUE] :
             part \in (SUBSET files) \ {files}}

\* Faulty variant: an existing destination is removed and copied again.
CopytreeAlways(raw, files, dst) ==
    Copytree([raw EXCEPT !.dirs[Basename(dst)] = NoDir], files, dst)

\* DataIngestion._copytree_if_missing(src, dst): the possible outcomes.
CopytreeIfMissing(raw, files, dst) ==
    IF RawExists(raw, dst)
    THEN {[raw |-> raw, copied |-> FALSE, failed |-> FALSE]}
    ELSE Copytree(raw, files, dst)

\* Faulty variant: a copy that fails rolls back the copies the call made before it.
ThenCopyRollback(states, files, dst) ==
    UNION {IF s.err # NoErr
           THEN {s}
           ELSE {[raw |-> IF o.failed
                          THEN [o.raw EXCEPT !.dirs =
                                   [n \in DOMAIN @ |-> IF n \in s.copied THEN NoDir ELSE @[n]]]
                          ELSE o.raw,
                  copied |-> IF o.copied THEN s.copied \cup {Basename(dst)} ELSE s.copied,
                  err |-> IF o.failed THEN Err("PrepareFailed", dst, "") ELSE NoErr,
                  warn |-> s.warn] : o \in CopytreeIfMissing(s.raw, files, dst)} :
           s \in states}

\* One _copytree_if_missing call of _prepare_raw_data_dir, after the outcomes
\* `states` of the calls before it: an outcome that raised stays as it is. An
\* exception of shutil is wrapped as "Failed to prepare raw COCO directory".
ThenCopy(states, files, dst) ==
    UNION {IF s.err # NoErr
           THEN {s}
           ELSE {[raw |-> o.raw,
                  copied |-> IF o.copied THEN s.copied \cup {Basename(dst)} ELSE s.copied,
                  err |-> IF o.failed THEN Err("PrepareFailed", dst, "") ELSE NoErr,
                  warn |-> s.warn] : o \in CopytreeIfMissing(s.raw, files, dst)} :
           s \in states}

\* os.path.exists(p) for a path p under the working directory wd, which holds tree.
SrcExists(tree, wd, p) ==
    IsPrefix(wd, p) /\ TreeExists(tree, SubSeq(p, Len(wd) + 1, Len(p)))

\* Lines 164-171 of _prepare_raw_data_dir: the annotation files once copied.
CheckAnnotationFiles(cfg, s) ==
    IF s.err # NoErr THEN s
    ELSE IF ~RawExists(s.raw, cfg.raw_train_annotation_file)
    THEN [s EXCEPT !.err = Err("TrainAnnotationNotFound", cfg.raw_train_annotation_file, "")]
    ELSE IF ~RawExists(s.raw, cfg.raw_val_annotation_file)
    THEN [s EXCEPT !.warn = @ \cup {cfg.raw_val_annotation_file}]
    ELSE s

\* Faulty variant: the source directories are checked for only after the copies.
MaterializeCheckLate(cfg, raw, tree, wd, coco_root, annFiles) ==
    LET src_train == Join(coco_root, TrainDirname(cfg))
        src_ann_dir == Join(coco_root, AnnDirname)
        start == {[raw |-> raw, copied |-> {}, err |-> NoErr, warn |-> {}]}
        copies == ThenCopy(ThenCopy(start, Images, cfg.raw_train_image_dir),
                           annFiles, cfg.raw_annotation_dir)
    IN  {IF s.err # NoErr THEN s
         ELSE IF ~SrcExists(tree, wd, src_train)
         THEN [s EXCEPT !.err = Err("MissingSource", src_train, "")]
         ELSE IF ~SrcExists(tree, wd, src_ann_dir)
         THEN [s EXCEPT !.err = Err("MissingSource", src_ann_dir, "")]
         ELSE s : s \in copies}

\* Lines 136-173 of DataIngestion._prepare_raw_data_dir, from the located root
\* on: the possible outcomes [raw, copied, err, warn], where copied are the
\* destination directories copied in full and warn the paths warned about.
Materialize(cfg, raw, tree, wd, coco_root, annFiles) ==
    LET train_dirname == TrainDirname(cfg)
        val_dirname == ValDirname(cfg)
        src_train == Join(coco_root, train_dirname)
        src_val == Join(coco_root, val_dirname)
        src_ann_dir == Join(coco_root, AnnDirname)
        dst_train == cfg.raw_train_image_dir
        dst_val == cfg.raw_val_image_dir
        dst_ann_dir == cfg.raw_annotation_dir
        start == {[raw |-> raw, copied |-> {}, err |-> NoErr, warn |-> {}]}
    IN  IF ~SrcExists(tree, wd, src_train)
        THEN {[raw |-> raw, copied |-> {}, err |-> Err("MissingSource", src_train, ""),
               warn |-> {}]}
        ELSE IF ~SrcExists(tree, wd, src_ann_dir)
        THEN {[raw |-> raw, copied |-> {}, err |-> Err("MissingSource", src_ann_dir, ""),
               warn |-> {}]}
        ELSE LET afterTrain == ThenCopy(start, SrcFiles(annFiles, train_dirname), dst_train)
                 afterVal ==
                     IF SrcExists(tree, wd, src_val)
                     THEN ThenCopy(afterTrain, SrcFiles(annFiles, val_dirname), dst_val)
                     ELSE {IF s.err # NoErr THEN s
                           ELSE [s EXCEPT !.warn = @ \cup {src_val}] : s \in afterTrain}
                 afterAnn == ThenCopy(afterVal, SrcFiles(annFiles, AnnDirname), dst_ann_dir)
             IN  {CheckAnnotationFiles(cfg, s) : s \in afterAnn}

\* Faulty variant: the validation split is required too.
ValidateRawPathsStrict(cfg, raw) ==
    LET required == <<cfg.raw_data_dir, cfg.raw_train_image_dir, cfg.raw_annotation_dir,
                      cfg.raw_val_image_dir, cfg.raw_train_annotation_file,
                      cfg.raw_val_annotation_file>>
        missing == {i \in 1..Len(required) : ~RawExists(raw, required[i])}
    IN  IF missing # {}
        THEN [err |-> Err("MissingPath",
                          required[CHOOSE i \in missing : \A j \in missing : i <= j], ""),
              warn |-> {}]
        ELSE [err |-> NoErr, warn |-> {}]

\* DataIngestion._validate_raw_paths: the error raised and the paths warned about.
ValidateRawPaths(cfg, raw) ==
    LET required == <<cfg.raw_data_dir, cfg.raw_train_image_dir, cfg.raw_annotation_dir,
                      cfg.raw_train_annotation_file>>
        optional == {cfg.raw_val_image_dir, cfg.raw_val_annotation_file}
        missing == {i \in 1..Len(required) : ~RawExists(raw, required[i])}
    IN  IF missing # {}
        THEN [err |-> Err("MissingPath",
                          required[CHOOSE i \in missing : \A j \in missing : i <= j], ""),
              warn |-> {}]
        ELSE [err |-> NoErr, warn |-> {p \in optional : ~RawExists(raw, p)}]

\* ------------------------------------------------------------------
\* The manifest and the artifact
\* ------------------------------------------------------------------
\* A path as the text of its string: the components with "/" between them.
RECURSIVE PathText(_)
PathText(p) ==
    IF Len(p) = 0 THEN <<>>
    ELSE IF Len(p) = 1 THEN <<p[1]>>
    ELSE <<p[1], "/">> \o PathText(Tail(p))

\* "{value}" in double quotes, as the f-string of _write_manifest writes it.
Quoted(text) == <<"\"">> \o text \o <<"\"">>

\* Faulty variant: the validation image directory is written where the train one belongs.
ManifestTextSwapped(cfg, created_at) ==
    [name |-> <<"coco2017">>,
     source |-> <<"kagglehub">>,
     created_at |-> created_at,
     mode |-> Quoted(<<cfg.ingestion_mode>>),
     root_dir |-> Quoted(PathText(cfg.raw_data_dir)),
     train_images_dir |-> Quoted(PathText(cfg.raw_val_image_dir)),
     val_images_dir |-> Quoted(PathText(cfg.raw_val_image_dir)),
     annotation_dir |-> Quoted(PathText(cfg.raw_annotation_dir)),
     train_annotation_file |-> Quoted(PathText(cfg.raw_train_annotation_file)),
     val_annotation_file |-> Quoted(PathText(cfg.raw_val_annotation_file))]

\* yaml_text of DataIngestion._write_manifest: the value written for each key.
ManifestText(cfg, created_at) ==
    [name |-> <<"coco2017">>,
     source |-> <<"kagglehub">>,
     created_at |-> created_at,
     mode |-> Quoted(<<cfg.ingestion_mode>>),
     root_dir |-> Quoted(PathText(cfg.raw_data_dir)),
     train_images_dir |-> Quoted(PathText(cfg.raw_train_image_dir)),
     val_images_dir |-> Quoted(PathText(cfg.raw_val_image_dir)),
     annotation_dir |-> Quoted(PathText(cfg.raw_annotation_dir)),
     train_annotation_file |-> Quoted(PathText(cfg.raw_train_annotation_file)),
     val_annotation_file |-> Quoted(PathText(cfg.raw_val_annotation_file))]

\* open(manifest_path, "w").write(yaml_text): the files after the write.
WriteFile(files, path, text) ==
    [q \in DOMAIN files \cup {path} |-> IF q = path THEN text ELSE files[q]]

\* DataIngestionArtifact(...) as initiate_data_ingestion returns it.
DataIngestionArtifact(cfg) ==
    [data_ingestion_dir |-> cfg.data_ingestion_dir,
     manifest_file_path |-> cfg.manifest_file_path,
     ingestion_mode |-> cfg.ingestion_mode]
NoArtifact ==
    [data_ingestion_dir |-> NoPath, manifest_file_path |-> NoPath, ingestion_mode |-> ""]

\* ------------------------------------------------------------------
\* The orchestrator
\* ------------------------------------------------------------------
\* kagglehub.dataset_download(dataset_name): the archive file or the directory.
DownloadedPath(zip) ==
    IF zip THEN <<"kagglehub", "coco-2017-dataset.zip">>
    ELSE <<"kagglehub", "coco-2017-dataset">>
\* DataIngestion._is_zip(path): a file whose suffix is ".zip".
IsZip(path) == path = DownloadedPath(TRUE)
\* tmp_dir = os.path.join(self.config.raw_data_dir, "_tmp_extract")
TmpDir(cfg) == Join(cfg.raw_data_dir, "_tmp_extract")

\* Faulty variant: a failed stage is logged and the run goes on.
AfterStageSwallow(stage, e, zip) ==
    CASE stage = "ACQUIRE" -> IF e # NoErr THEN "FAILED" ELSE "PREPARE"
      [] stage = "PREPARE" -> IF zip THEN "EXPAND" ELSE "LOCATE_ROOT"
      [] stage = "EXPAND" -> IF e # NoErr THEN "FAILED" ELSE "LOCATE_ROOT"
      [] stage = "LOCATE_ROOT" -> IF e # NoErr THEN "FAILED" ELSE "MATERIALIZE"
      [] stage = "MATERIALIZE" -> "VALIDATE"
      [] stage = "VALIDATE" -> "WRITE_MANIFEST"
      [] stage = "WRITE_MANIFEST" -> "RETURN"
      [] OTHER -> "DONE"

\* The control flow of initiate_data_ingestion and _prepare_raw_data_dir: what
\* follows a stage that ended with error e (every exception propagates to the
\* caller), zip being _is_zip(downloaded_path).
AfterStage(stage, e, zip) ==
    IF e # NoErr THEN "FAILED"
    ELSE CASE stage = "ACQUIRE" -> "PREPARE"
           [] stage = "PREPARE" -> IF zip THEN "EXPAND" ELSE "LOCATE_ROOT"
           [] stage = "EXPAND" -> "LOCATE_ROOT"
           [] stage = "LOCATE_ROOT" -> "MATERIALIZE"
           [] stage = "MATERIALIZE" -> "VALIDATE"
           [] stage = "VALIDATE" -> "WRITE_MANIFEST"
           [] stage = "WRITE_MANIFEST" -> "RETURN"
           [] OTHER -> "DONE"

\* ------------------------------------------------------------------
\* State
\* ------------------------------------------------------------------
VARIABLES
    clock,            \* the wall clock, in ticks
    defaultTimestamp, \* the default of TrainingPipelineConfig.__init__'s timestamp
    artifactDirs,     \* the artifact_dir of every TrainingPipelineConfig constructed
    cfg,              \* the DataIngestionConfig of the current run
    pc,               \* the stage the current run executes next
    trace,            \* the stages the current run has entered
    payloadIsZip,     \* whether the dataset's payload is a zip archive
    tree,             \* the payload's directory tree
    order,            \* the directory-listing order of names
    annFiles,         \* the files of the payload's annotations/ directories
    workingDir,       \* downloaded_path, then working_dir
    cocoRoot,         \* coco_root
    raw,              \* data/raw on disk
    manifests,        \* the manifest files on disk: path -> text
    err,              \* the CustomException the current run raised
    result,           \* the DataIngestionArtifact the current run returned
    copied,           \* the destinations the current run copied in full
    warnings,         \* the paths the current run warned about
    prev              \* the run before: whether there was one, whether its copies
                      \* all completed, and data/raw's directories when it ended

vars == <<clock, defaultTimestamp, artifactDirs, cfg, pc, trace, payloadIsZip, tree, order,
          annFiles, workingDir, cocoRoot, raw, manifests, err, result, copied, warnings,
          prev>>

payload == <<payloadIsZip, tree, order, annFiles>>
time == <<clock, defaultTimestamp, artifactDirs>>

\* ------------------------------------------------------------------
\* The payloads and file-system states the model draws from
\* ------------------------------------------------------------------
RECURSIVE Prefixes(_)
Prefixes(p) == IF Len(p) = 0 THEN {} ELSE {p} \cup Prefixes(Dirname(p))

\* The tree in which directory l holds the directories named in pop[l].
TreeOf(pop) ==
    UNION {UNION {Prefixes(Join(l, n)) : n \in pop[l]} : l \in DOMAIN pop}

LocateDirs == {<<>>, <<"a">>, <<"b">>, <<"a", "c">>, <<"b", "c">>, <<"a", "c", "d">>}
LocateTrees ==
    {TreeOf(pop) : pop \in [LocateDirs ->
        {{}, {"train2017"}, {"annotations"}, {"train2017", "annotations"}}]}

PipelineDirs == {<<>>, <<"a">>, <<"a", "c", "d">>}
PipelineTrees ==
    {TreeOf(pop) : pop \in [PipelineDirs ->
        {{}, {"train2017", "annotations"}, {"train2017", "annotations", "val2017"}}]}

MaterializeDirs == {<<>>, <<"a">>}
MaterializeTrees ==
    {TreeOf(pop) : pop \in [MaterializeDirs ->
        {{}, {"train2017"}, {"annotations"}, {"train2017", "annotations"},
         {"train2017", "annotations", "val2017"}}]}

\* The orders in which the file system may list names.
Orders ==
    {<<"a", "b", "c", "d", "annotations", "train2017", "val2017">>,
     <<"val2017", "train2017", "annotations", "d", "c", "b", "a">>}

FreshRaw == [root |-> FALSE, tmp |-> "absent", dirs |-> [n \in DstNames |-> NoDir]]

\* Every state of data/raw's three directories.
RawStates ==
    {FreshRaw} \cup
    {[root |-> TRUE, tmp |-> "absent",
      dirs |-> [n \in DstNames |->
                  IF n = AnnDirname THEN a
                  ELSE IF n = Basename(RAW_COCO_TRAIN_IMAGE_DIR) THEN t ELSE v]] :
        t \in {NoDir} \cup {Dir(f) : f \in SUBSET Images},
        v \in {NoDir} \cup {Dir(f) : f \in SUBSET Images},
        a \in {NoDir} \cup {Dir(f) : f \in SUBSET AnnFileNames}}

NoRun == [ran |-> FALSE, matComplete |-> FALSE, dirs |-> FreshRaw.dirs]

\* Whether the current run's materialization made all its copies.
MatCompleted ==
    /\ "MATERIALIZE" \in {trace[i] : i \in 1..Len(trace)}
    /\ err.kind \notin {"PrepareFailed", "MissingSource"}

\* ------------------------------------------------------------------
\* Initial states
\* ------------------------------------------------------------------
\* A process that has imported the package, on a machine with no data/raw.
Init ==
    /\ clock = 0
    /\ defaultTimestamp = 0
    /\ artifactDirs = <<>>
    /\ cfg = DataIngestionConfig(ArtifactDir(0))
    /\ pc = "IDLE"
    /\ trace = <<>>
    /\ payloadIsZip \in BOOLEAN
    /\ tree \in PipelineTrees
    /\ order \in Orders
    /\ annFiles \in SUBSET AnnFileNames
    /\ workingDir = NoPath
    /\ cocoRoot = NoPath
    /\ raw = FreshRaw
    /\ manifests = <<>>
    /\ err = NoErr
    /\ result = NoArtifact
    /\ copied = {}
    /\ warnings = {}
    /\ prev = NoRun

\* A DataIngestion object about to execute stage `stage` on a directory payload.
InitAt(stage) ==
    /\ clock = 0
    /\ defaultTimestamp = 0
    /\ artifactDirs = <<ArtifactDir(0)>>
    /\ cfg = DataIngestionConfig(ArtifactDir(0))
    /\ pc = stage
    /\ trace = <<>>
    /\ payloadIsZip = FALSE
    /\ workingDir = DownloadedPath(FALSE)
    /\ manifests = <<>>
    /\ err = NoErr
    /\ result = NoArtifact
    /\ copied = {}
    /\ warnings = {}
    /\ prev = NoRun

\* _find_coco_root called on any payload tree.
InitLocate ==
    /\ InitAt("LOCATE_ROOT")
    /\ tree \in LocateTrees
    /\ order \in Orders
    /\ annFiles = AnnFileNames
    /\ cocoRoot = NoPath
    /\ raw = [FreshRaw EXCEPT !.root = TRUE]

\* The materializer called with any directory of the payload as the located root,
\* on any state of data/raw.
InitMaterialize ==
    /\ InitAt("MATERIALIZE")
    /\ tree \in MaterializeTrees
    /\ order = CHOOSE o \in Orders : TRUE
    /\ annFiles \in SUBSET AnnFileNames
    /\ cocoRoot \in {workingDir \o d : d \in MaterializeDirs}
    /\ SrcExists(tree, workingDir, cocoRoot)
    /\ raw \in RawStates

\* _validate_raw_paths called on any state of data/raw.
InitValidate ==
    /\ InitAt("VALIDATE")
    /\ tree = {}
    /\ order = CHOOSE o \in Orders : TRUE
    /\ annFiles = AnnFileNames
    /\ cocoRoot = NoPath
    /\ raw \in RawStates

\* ------------------------------------------------------------------
\* Actions
\* ------------------------------------------------------------------
Idle == pc \in {"IDLE", "DONE", "FAILED"}

\* Time passes between two runs.
Tick ==
    /\ Idle
    /\ clock < MaxClock
    /\ clock' = clock + 1
    /\ UNCHANGED <<defaultTimestamp, artifactDirs, cfg, pc, trace, payload, workingDir,
                   cocoRoot, raw, manifests, err, result, copied, warnings, prev>>

\* A new Python process imports config_entity: the default of
\* TrainingPipelineConfig.__init__(timestamp=datetime.now()) is evaluated.
StartProcess ==
    /\ Idle
    /\ defaultTimestamp # clock
    /\ defaultTimestamp' = clock
    /\ UNCHANGED <<clock, artifactDirs, cfg, pc, trace, payload, workingDir, cocoRoot, raw,
                   manifests, err, result, copied, warnings, prev>>

\* TrainingPipelineConfig(), DataIngestionConfig(...), DataIngestion(...) and the
\* call of initiate_data_ingestion, as main() makes them.
NewRun ==
    /\ Idle
    /\ Len(artifactDirs) < MaxRuns
    /\ LET artifact_dir == ArtifactDir(defaultTimestamp)
       IN  /\ artifactDirs' = Append(artifactDirs, artifact_dir)
           /\ cfg' = DataIngestionConfig(artifact_dir)
    /\ pc' = "ACQUIRE"
    /\ trace' = <<>>
    /\ workingDir' = NoPath
    /\ cocoRoot' = NoPath
    /\ err' = NoErr
    /\ result' = NoArtifact
    /\ copied' = {}
    /\ warnings' = {}
    /\ prev' = IF pc = "IDLE" THEN NoRun
               ELSE [ran |-> TRUE, matComplete |-> MatCompleted, dirs |-> raw.dirs]
    /\ UNCHANGED <<clock, defaultTimestamp, payload, raw, manifests>>

\* The stage ends with error e.
EndStage(stage, e) ==
    /\ trace' = Append(trace, stage)
    /\ err' = e
    /\ pc' = AfterStage(stage, e, IsZip(workingDir'))

\* downloaded_path = kagglehub.dataset_download(...): the payload's path, or an
\* exception, wrapped as "Error in data ingestion pipeline".
Acquire ==
    /\ pc = "ACQUIRE"
    /\ \E ok \in BOOLEAN :
          /\ workingDir' = IF ok THEN DownloadedPath(payloadIsZip) ELSE NoPath
          /\ EndStage("ACQUIRE", IF ok THEN NoErr ELSE Err("Pipeline", <<>>, ""))
    /\ UNCHANGED <<time, cfg, payload, cocoRoot, raw, manifests, result, copied, warnings,
                   prev>>

\* Lines 124-128 of _prepare_raw_data_dir: data/raw is created, and the payload
\* is an archive or a directory.
PrepareBegin ==
    /\ pc = "PREPARE"
    /\ raw' = [raw EXCEPT !.root = TRUE]
    /\ pc' = AfterStage("PREPARE", NoErr, IsZip(workingDir))
    /\ UNCHANGED <<time, cfg, trace, payload, workingDir, cocoRoot, manifests, err, result,
                   copied, warnings, prev>>

\* working_dir = self._extract_zip(downloaded_path, tmp_dir): the archive is
\* extracted into data/raw/_tmp_extract, or the extraction raises and leaves the
\* directory as far as it got.
Expand ==
    /\ pc = "EXPAND"
    /\ \E ok \in BOOLEAN :
          /\ raw' = [raw EXCEPT !.tmp = IF ok THEN "full" ELSE "partial"]
          /\ workingDir' = IF ok THEN TmpDir(cfg) ELSE workingDir
          /\ trace' = Append(trace, "EXPAND")
          /\ err' = IF ok THEN NoErr ELSE Err("Extraction", workingDir, "")
          /\ pc' = AfterStage("EXPAND", err', TRUE)
    /\ UNCHANGED <<time, cfg, payload, cocoRoot, manifests, result, copied, warnings, prev>>

\* coco_root = self._find_coco_root(working_dir)
LocateRoot ==
    /\ pc = "LOCATE_ROOT"
    /\ LET found == FindCocoRoot(cfg, tree, order, workingDir)
       IN  /\ cocoRoot' = found.root
           /\ EndStage("LOCATE_ROOT", found.err)
    /\ UNCHANGED <<time, cfg, payload, workingDir, raw, manifests, result, copied, warnings,
                   prev>>

\* The rest of _prepare_raw_data_dir: the copies into data/raw.
MaterializeStep ==
    /\ pc = "MATERIALIZE"
    /\ \E o \in Materialize(cfg, raw, tree, workingDir, cocoRoot, annFiles) :
          /\ raw' = o.raw
          /\ copied' = o.copied
          /\ warnings' = warnings \cup o.warn
          /\ EndStage("MATERIALIZE", o.err)
    /\ UNCHANGED <<time, cfg, payload, workingDir, cocoRoot, manifests, result, prev>>

\* self._validate_raw_paths()
Validate ==
    /\ pc = "VALIDATE"
    /\ LET v == ValidateRawPaths(cfg, raw)
       IN  /\ warnings' = warnings \cup v.warn
           /\ EndStage("VALIDATE", v.err)
    /\ UNCHANGED <<time, cfg, payload, workingDir, cocoRoot, raw, manifests, result, copied,
                   prev>>

\* self._write_manifest(): the manifest is written at config.manifest_file_path,
\* or the write raises, wrapped as "Failed to write data manifest file".
WriteManifest ==
    /\ pc = "WRITE_MANIFEST"
    /\ \E ok \in BOOLEAN :
          /\ manifests' = IF ok
                          THEN WriteFile(manifests, cfg.manifest_file_path,
                                         ManifestText(cfg, clock))
                          ELSE manifests
          /\ EndStage("WRITE_MANIFEST",
                      IF ok THEN NoErr ELSE Err("ManifestWrite", cfg.manifest_file_path, ""))
    /\ UNCHANGED <<time, cfg, payload, workingDir, cocoRoot, raw, result, copied, warnings,
                   prev>>

\* return DataIngestionArtifact(...)
Return ==
    /\ pc = "RETURN"
    /\ result' = DataIngestionArtifact(cfg)
    /\ EndStage("DONE", NoErr)
    /\ UNCHANGED <<time, cfg, payload, workingDir, cocoRoot, raw, manifests, copied, warnings,
                   prev>>

Next ==
    \/ Tick
    \/ StartProcess
    \/ NewRun
    \/ Acquire
    \/ PrepareBegin
    \/ Expand
    \/ LocateRoot
    \/ MaterializeStep
    \/ Validate
    \/ WriteManifest
    \/ Return

Spec == Init /\ [][Next]_vars

NextLocate == LocateRoot
SpecLocate == InitLocate /\ [][NextLocate]_vars

NextMaterialize == MaterializeStep
SpecMaterialize == InitMaterialize /\ [][NextMaterialize]_vars

NextValidate == Validate \/ WriteManifest \/ Return
SpecValidate == InitValidate /\ [][NextValidate]_vars

\* ------------------------------------------------------------------
\* Properties
\* ------------------------------------------------------------------
Stages(t) == {t[i] : i \in 1..Len(t)}

\* The place of a name in the directory-listing order.
Pos(n) == CHOOSE i \in 1..Len(order) : order[i] = n

\* Candidate c is probed before candidate d: the base, then the children in
\* listing order, then the grandchildren, parent by parent, in listing order.
ProbedBefore(c, d) ==
    \/ Len(c) < Len(d)
    \/ /\ Len(c) = Len(d)
       /\ \E k \in 1..Len(c) :
             /\ SubSeq(c, 1, k - 1) = SubSeq(d, 1, k - 1)
             /\ Pos(c[k]) < Pos(d[k])

\* The directories at most two levels below the base that hold both train2017
\* and annotations.
QualifyingCandidates ==
    {c \in tree \cup {<<>>} :
        /\ Len(c) <= 2
        /\ Join(c, "train2017") \in tree
        /\ Join(c, "annotations") \in tree}

\* C1: once _find_coco_root has run on a tree with a qualifying candidate, it has
\* returned the qualifying candidate that is probed before every other one (the
\* base, then the children in listing order, then the grandchildren in listing
\* order); a base holding train2017 and annotations is returned itself, and a base
\* whose only qualifying directory is the child "a" returns that child.
C1_FirstCandidateWins ==
    ("LOCATE_ROOT" \in Stages(trace) /\ QualifyingCandidates # {}) =>
        /\ err = NoErr
        /\ \E c \in QualifyingCandidates :
              /\ cocoRoot = workingDir \o c
              /\ \A d \in QualifyingCandidates \ {c} : ProbedBefore(c, d)
        /\ (<<"train2017">> \in tree /\ <<"annotations">> \in tree) => cocoRoot = workingDir
        /\ QualifyingCandidates = {<<"a">>} => cocoRoot = Join(workingDir, "a")

\* A child is returned although a grandchild listed under an earlier child
\* qualifies too.
C1_Witness ==
    /\ "LOCATE_ROOT" \in Stages(trace)
    /\ order[1] = "a"
    /\ {<<"a", "c">>, <<"b">>} \subseteq QualifyingCandidates
    /\ <<"a">> \notin QualifyingCandidates
    /\ <<>> \notin QualifyingCandidates
    /\ cocoRoot = Join(workingDir, "b")

\* C6: once _find_coco_root has run on a tree with no qualifying candidate within
\* two levels of the base, it has raised the error that names the base directory
\* and the train directory name and has returned no path, also when a directory
\* three levels down holds train2017 and annotations.
C6_RootNotFound ==
    ("LOCATE_ROOT" \in Stages(trace) /\ QualifyingCandidates = {}) =>
        /\ err = Err("RootNotFound", workingDir, "train2017")
        /\ cocoRoot = NoPath
        /\ pc = "FAILED"

\* The only directory with the layout is three levels below the base.
C6_Witness ==
    /\ "LOCATE_ROOT" \in Stages(trace)
    /\ QualifyingCandidates = {}
    /\ {<<"a", "c", "d", "train2017">>, <<"a", "c", "d", "annotations">>} \subseteq tree
    /\ err.kind = "RootNotFound"

\* The four paths _validate_raw_paths requires, and those missing on disk.
RequiredPaths ==
    {RAW_DATA_DIR, RAW_COCO_TRAIN_IMAGE_DIR, RAW_COCO_ANNOTATION_DIR, RAW_COCO_TRAIN_ANN_FILE}
OptionalPaths == {RAW_COCO_VAL_IMAGE_DIR, RAW_COCO_VAL_ANN_FILE}
MissingRequired == {p \in RequiredPaths : ~RawExists(raw, p)}

\* C5: once _validate_raw_paths has run, it has raised the missing-path error,
\* naming a missing required path, exactly when one of the four required paths
\* is missing; with the four present it has raised nothing, whatever is missing
\* of the validation split, and has warned about exactly the missing optional
\* paths.
C5_RequiredOptional ==
    "VALIDATE" \in Stages(trace) =>
        /\ MissingRequired # {} =>
              /\ pc = "FAILED"
              /\ err.kind = "MissingPath"
              /\ err.path \in MissingRequired
        /\ MissingRequired = {} =>
              /\ err.kind # "MissingPath"
              /\ trace = <<"VALIDATE">> => pc = "WRITE_MANIFEST"
              /\ warnings = {p \in OptionalPaths : ~RawExists(raw, p)}

\* The validator has succeeded, warning about the validation split alone.
C5_Witness ==
    /\ trace = <<"VALIDATE">>
    /\ pc = "WRITE_MANIFEST"
    /\ err = NoErr
    /\ MissingRequired = {}
    /\ warnings = OptionalPaths

\* C7: a materializer call whose source train2017 or annotations directory does
\* not exist under the located root raises the missing-source error naming the
\* missing source path, train2017 first, copies nothing and leaves data/raw as
\* it was.
C7_MissingSource ==
    [][(/\ pc = "MATERIALIZE"
        /\ \/ Join(cocoRoot, "train2017") \notin {workingDir \o q : q \in tree}
           \/ Join(cocoRoot, "annotations") \notin {workingDir \o q : q \in tree})
       => /\ raw' = raw
          /\ copied' = {}
          /\ pc' = "FAILED"
          /\ err'.kind = "MissingSource"
          /\ err'.path =
                IF Join(cocoRoot, "train2017") \notin {workingDir \o q : q \in tree}
                THEN Join(cocoRoot, "train2017")
                ELSE Join(cocoRoot, "annotations")]_vars

\* The call has failed for the missing annotations source, with train2017 there
\* to copy and no destination on disk.
C7_Witness ==
    /\ trace = <<"MATERIALIZE">>
    /\ pc = "FAILED"
    /\ err = Err("MissingSource", Join(cocoRoot, "annotations"), "")
    /\ Join(cocoRoot, "train2017") \in {workingDir \o q : q \in tree}
    /\ \A n \in DstNames : ~raw.dirs[n].present

\* The stages of a run in order, for an archive payload or a directory one.
ExpectedStages(zip) ==
    <<"ACQUIRE">> \o (IF zip THEN <<"EXPAND">> ELSE <<>>)
    \o <<"LOCATE_ROOT", "MATERIALIZE", "VALIDATE", "WRITE_MANIFEST", "DONE">>

\* The stage that raises each kind of error.
StageOfError(kind) ==
    CASE kind = "Pipeline" -> "ACQUIRE"
      [] kind = "Extraction" -> "EXPAND"
      [] kind = "RootNotFound" -> "LOCATE_ROOT"
      [] kind \in {"MissingSource", "PrepareFailed", "TrainAnnotationNotFound"} -> "MATERIALIZE"
      [] kind = "MissingPath" -> "VALIDATE"
      [] kind = "ManifestWrite" -> "WRITE_MANIFEST"
      [] OTHER -> "?"

\* C4: the stages a run has entered are an initial part of ACQUIRE, EXPAND (for
\* an archive payload only), LOCATE_ROOT, MATERIALIZE, VALIDATE, WRITE_MANIFEST,
\* DONE, so none is entered twice or out of order; a run with an error has
\* stopped at the stage that raised it; and the manifest is written or a result
\* returned only after VALIDATE was entered with the four required paths on disk.
C4_StageOrder ==
    /\ IsPrefix(trace, ExpectedStages(payloadIsZip))
    /\ err # NoErr =>
          /\ pc = "FAILED"
          /\ trace # <<>>
          /\ trace[Len(trace)] = StageOfError(err.kind)
    /\ pc = "FAILED" => err # NoErr
    /\ ("WRITE_MANIFEST" \in Stages(trace) \/ result # NoArtifact) =>
          /\ "VALIDATE" \in Stages(trace)
          /\ MissingRequired = {}
    /\ result # NoArtifact =>
          /\ pc = "DONE"
          /\ trace = ExpectedStages(payloadIsZip)
          /\ cfg.manifest_file_path \in DOMAIN manifests

\* A run on an archive payload has gone through every stage.
C4_Witness ==
    /\ payloadIsZip
    /\ pc = "DONE"
    /\ trace = <<"ACQUIRE", "EXPAND", "LOCATE_ROOT", "MATERIALIZE", "VALIDATE",
                 "WRITE_MANIFEST", "DONE">>
    /\ result = DataIngestionArtifact(cfg)

\* The payload directories the located root holds.
SourceNames == {n \in DstNames : Join(cocoRoot, n) \in {workingDir \o q : q \in tree}}

\* C2: no run returns its result while a destination directory on disk holds
\* less than its source.
C2_NoPartialSuccess ==
    pc = "DONE" =>
        \A n \in DstNames :
            raw.dirs[n].present => raw.dirs[n].files = SrcFiles(annFiles, n)

\* C3: a materialization that made all its copies on a data/raw without
\* destination directories has copied every directory the located root holds,
\* in full; the materialization of the next run copies nothing, attempts no copy
\* and leaves the destination directories as the first left them.
C3_Idempotence ==
    /\ (MatCompleted /\ \A n \in DstNames : ~prev.dirs[n].present) =>
          /\ copied = SourceNames
          /\ \A n \in DstNames :
                raw.dirs[n] = IF n \in SourceNames THEN Dir(SrcFiles(annFiles, n)) ELSE NoDir
    /\ ("MATERIALIZE" \in Stages(trace) /\ prev.matComplete) =>
          /\ copied = {}
          /\ err.kind # "PrepareFailed"
          /\ raw.dirs = prev.dirs

\* The second of two runs has returned, having copied nothing, after a first
\* run that copied the three directories.
C3_Witness ==
    /\ prev.ran
    /\ prev.matComplete
    /\ \A n \in DstNames : prev.dirs[n] = Dir(SrcFiles(annFiles, n))
    /\ pc = "DONE"
    /\ copied = {}
    /\ raw.dirs = prev.dirs

\* C8: no two TrainingPipelineConfig constructions have the same artifact_dir.
C8_ArtifactDirUnique ==
    \A i, j \in 1..Len(artifactDirs) : i # j => artifactDirs[i] # artifactDirs[j]

\* The text between the double quotes of a quoted value.
Unquoted(text) ==
    IF Len(text) >= 2 /\ text[1] = "\"" /\ text[Len(text)] = "\""
    THEN SubSeq(text, 2, Len(text) - 1)
    ELSE text

\* The path a text spells: its components, split at "/".
RECURSIVE ParsePath(_)
ParsePath(text) ==
    IF text = <<>> THEN <<>>
    ELSE IF text[1] = "/" THEN ParsePath(Tail(text))
    ELSE <<text[1]>> \o ParsePath(Tail(text))

ReadBack(text) == ParsePath(Unquoted(text))

\* C9: when a run has returned, the manifest exists at the configured path, the
\* result carries that path and the configured mode, and the six raw fields of
\* the manifest, read back, are the configuration's six raw paths.
C9_ManifestRoundTrip ==
    pc = "DONE" =>
        /\ cfg.manifest_file_path \in DOMAIN manifests
        /\ result.manifest_file_path = cfg.manifest_file_path
        /\ result.data_ingestion_dir = cfg.data_ingestion_dir
        /\ result.ingestion_mode = cfg.ingestion_mode
        /\ LET m == manifests[cfg.manifest_file_path]
           IN  /\ Unquoted(m.mode) = <<cfg.ingestion_mode>>
               /\ ReadBack(m.root_dir) = cfg.raw_data_dir
               /\ ReadBack(m.train_images_dir) = cfg.raw_train_image_dir
               /\ ReadBack(m.val_images_dir) = cfg.raw_val_image_dir
               /\ ReadBack(m.annotation_dir) = cfg.raw_annotation_dir
               /\ ReadBack(m.train_annotation_file) = cfg.raw_train_annotation_file
               /\ ReadBack(m.val_annotation_file) = cfg.raw_val_annotation_file

\* A run has returned and its manifest names data/raw/train2017.
C9_Witness ==
    /\ pc = "DONE"
    /\ cfg.manifest_file_path \in DOMAIN manifests
    /\ manifests[cfg.manifest_file_path].train_images_dir =
          <<"\"", "data", "/", "raw", "/", "train2017", "\"">>
    /\ result.manifest_file_path =
          <<"artifacts", "11_02_2026_10_00_00", "data_ingestion", "data_manifest.yaml">>

\* C10: the destinations a run copied in full stay on disk in full, whatever the
\* run does or raises afterwards; and a destination directory that was on disk
\* when the run before ended is left as it was and is not copied again.
C10_NoRollback ==
    /\ \A n \in copied : raw.dirs[n] = Dir(SrcFiles(annFiles, n))
    /\ \A n \in DstNames :
          prev.dirs[n].present => (raw.dirs[n] = prev.dirs[n] /\ n \notin copied)

\* The run before failed copying annotations after copying train2017 in full;
\* this run has skipped train2017 and copied annotations.
C10_Witness ==
    /\ prev.ran
    /\ ~prev.matComplete
    /\ prev.dirs["train2017"] = Dir(Images)
    /\ ~prev.dirs["annotations"].present
    /\ "MATERIALIZE" \in Stages(trace)
    /\ "train2017" \notin copied
    /\ "annotations" \in copied
    /\ raw.dirs["train2017"] = prev.dirs["train2017"]

====
